---- MODULE Spec2Model ----
(***************************************************************************)
(* A model of arxiv-daily-digest: the query builder and the feed fetcher   *)
(* (src/src/arxiv_fetcher.py), the summarization stage                     *)
(* (src/src/summarizer.py) and the run that chains them                    *)
(* (src/src/main.py).                                                      *)
(*                                                                         *)
(* Encoding of Python values                                               *)
(*   - query strings are TLA+ strings, built with \o as the code builds    *)
(*     them with join and f-strings;                                       *)
(*   - every other str is a sequence of tokens; the token " " is a run of  *)
(*     whitespace, every other token holds no whitespace, so that          *)
(*     str.strip() and str.split() are computed and not assumed;           *)
(*   - None is the one-token value NoneVal, a token no text holds;         *)
(*   - a datetime is [wall, aware, off]: the wall-clock hour, whether it   *)
(*     carries a UTC offset, and that offset in hours;                     *)
(*   - a dict is a TLA+ record; dicts and lists are objects, so they live  *)
(*     in heap and lists and are named by reference (their index).         *)
(***************************************************************************)
EXTENDS Integers, Sequences, FiniteSets, TLC

VARIABLES
    pc,                 \* position of the process in main / run_digest / fetch_papers
    now,                \* the wall clock, in hours (datetime.now(timezone.utc))
    dry_run,            \* args.dry_run
    api_key,            \* whether OPENAI_API_KEY is set to a non-empty value
    config,             \* the loaded configuration, or NoConfig
    fetcher,            \* the ArxivFetcher object, or NoFetcher
    query,              \* sequence of the strings build_query has returned
    requests,           \* the outcomes of the urlopen calls made, in order
    feed,               \* entries of the parsed feed document (root.findall)
    idx,                \* loop index of the running for loop
    heap,               \* the paper dicts, by reference
    lists,              \* the list objects, by reference: each a sequence of dict references
    papers,             \* run_digest's papers: a list reference, or NoRef
    summarized_papers,  \* run_digest's summarized_papers: a list reference, or NoRef
    fetched,            \* history: the values of the records fetch_papers returned
    calls,              \* history: the text-generation calls made, in order
    sink,               \* history: what the output stage was handed
    exit                \* how the process ended, or Running

vars == <<pc, now, dry_run, api_key, config, fetcher, query, requests, feed, idx, heap,
          lists, papers, summarized_papers, fetched, calls, sink, exit>>

-----------------------------------------------------------------------------
(* Bounds of the model *)

MaxCats == 2        \* categories in a configuration
MaxGroups == 2      \* keyword groups in a configuration
MaxTerms == 2       \* terms in a keyword group
MaxEntries == 2     \* entries in a feed document
MaxClock == 2       \* hours the clock may advance during a run
WindowHours == 1    \* the configured arxiv.time_window_hours
MaxQueryCalls == 2  \* calls of build_query on one fetcher
MaxFetchCalls == 2  \* calls of fetch_papers on one fetcher

-----------------------------------------------------------------------------
(* Python values *)

NoneVal == <<"<None>">>
WS == " "
NoRef == 0

RECURSIVE lstrip(_)
lstrip(s) == IF s # <<>> /\ Head(s) = WS THEN lstrip(Tail(s)) ELSE s

RECURSIVE rstrip(_)
rstrip(s) == IF s # <<>> /\ s[Len(s)] = WS THEN rstrip(SubSeq(s, 1, Len(s) - 1)) ELSE s

\* str.strip()
strip(s) == rstrip(lstrip(s))

\* s.split(sep)[-1]: what follows the last occurrence of the token sep
RECURSIVE split_last(_, _)
split_last(s, sep) ==
    IF \E i \in 1..Len(s) : s[i] = sep
    THEN split_last(Tail(s), sep)
    ELSE s

\* sep.join(parts)
RECURSIVE join(_, _)
join(sep, parts) ==
    IF Len(parts) = 0 THEN ""
    ELSE IF Len(parts) = 1 THEN parts[1]
    ELSE parts[1] \o sep \o join(sep, Tail(parts))

\* all sequences over S of length at most n
SeqsUpTo(S, n) == UNION {[1..k -> S] : k \in 0..n}

-----------------------------------------------------------------------------
(* ArxivFetcher.build_query *)

\* mutant: the size-1 case is lost, every group is parenthesised
keyword_part_always_paren(group) ==
    "(" \o join(" AND ", [i \in 1..Len(group) |-> "all:" \o group[i]]) \o ")"

keyword_part(group) ==
    IF Len(group) = 1
    THEN "all:" \o group[1]
    ELSE "(" \o join(" AND ", [i \in 1..Len(group) |-> "all:" \o group[i]]) \o ")"

build_query(self, keyword_groups) ==
    LET cat_query == join(" OR ", [i \in 1..Len(self.categories) |->
                                        "cat:" \o self.categories[i]])
        keyword_parts == [i \in 1..Len(keyword_groups) |->
                              keyword_part(keyword_groups[i])]
        keyword_query == join(" OR ", keyword_parts)
    IN "(" \o cat_query \o ") AND (" \o keyword_query \o ")"

-----------------------------------------------------------------------------
(* The feed document: what ElementTree gives for one atom:entry *)

\* A child element looked up with find(): not there (find returns None), there
\* with no text (.text is None), or there with text.
Absent == [st |-> "absent"]
Empty == [st |-> "empty"]
Text(s) == [st |-> "text", text |-> s]

\* A timestamp string "<wall><tz>" by its parts, and a string that is no timestamp.
Iso(wall, tz) == [wall |-> wall, tz |-> tz]
Junk == [junk |-> TRUE]

\* str.replace('Z', '+00:00') on a timestamp string
replace_Z(s) == IF "tz" \in DOMAIN s /\ s.tz = "Z" THEN Iso(s.wall, "+00:00") ELSE s

\* datetime.fromisoformat: the strings it accepts (a trailing "Z" is not among
\* them before Python 3.11, which is why the code replaces it first)
iso_ok(s) == "tz" \in DOMAIN s /\ s.tz \in {"", "+00:00", "+01:00"}

fromisoformat(s) ==
    [wall |-> s.wall, aware |-> s.tz # "", off |-> IF s.tz = "+01:00" THEN 1 ELSE 0]

\* the instant of an aware datetime, in hours UTC
Instant(d) == d.wall - d.off

\* a >= b on datetimes raises TypeError when exactly one of them is naive
ge_raises(a, b) == a.aware # b.aware
ge(a, b) == Instant(a) >= Instant(b)

\* The cutoff of a fetcher constructed at clock 0, and the publish hours around it.
Cutoff0 == 0 - WindowHours
PubTimes == {Cutoff0 - 1, Cutoff0, Cutoff0 + 1}

IdUrl == <<"http://arxiv.org", "/abs/", "2101.00001v2">>
PdfLink == [title |-> <<"pdf">>, href |-> <<"http://arxiv.org/pdf/2101.00001v2">>]
OtherLink == [title |-> NoneVal, href |-> <<"http://arxiv.org/abs/2101.00001v2">>]

\* a complete entry published at hour w (UTC)
BaseEntry(w) ==
    [id |-> Text(IdUrl),
     title |-> Text(<<WS, "Title", WS>>),
     summary |-> Text(<<"Abstract", WS>>),
     published |-> Text(Iso(w, "Z")),
     updated |-> Text(Iso(w, "Z")),
     authors |-> <<Text(<<"Ann">>)>>,
     links |-> <<OtherLink, PdfLink>>]

InWindow == BaseEntry(Cutoff0 + 1)

\* The entries a feed is made of: complete entries before, at and after the
\* cutoff, and the in-window entry with one part of it changed.
Entries ==
    {BaseEntry(w) : w \in PubTimes}
    \cup {[InWindow EXCEPT ![f] = v] :
              f \in {"id", "title", "summary", "published", "updated"},
              v \in {Absent, Empty}}
    \cup {[InWindow EXCEPT !.published = Text(s)] :
              s \in {Iso(Cutoff0 + 1, "+01:00"), Iso(Cutoff0, "+01:00"),
                     Iso(Cutoff0 + 1, ""), Junk}}
    \cup {[InWindow EXCEPT !.updated = Text(s)] : s \in {Iso(Cutoff0 + 1, ""), Junk}}
    \cup {[InWindow EXCEPT !.title = Text(<<WS>>)]}
    \cup {[InWindow EXCEPT !.authors = a] :
              a \in {<<>>, <<Absent>>, <<Empty>>,
                     <<Text(<<"Ann">>), Text(<<"Bob">>), Text(<<"Cy">>), Empty>>}}
    \cup {[InWindow EXCEPT !.links = l] : l \in {<<>>, <<OtherLink>>}}

Feeds == SeqsUpTo(Entries, MaxEntries)

-----------------------------------------------------------------------------
(* ArxivFetcher._parse_entry *)

\* the first link whose title attribute is 'pdf' gives pdf_url, else None
RECURSIVE pdf_url_of(_)
pdf_url_of(links) ==
    IF links = <<>> THEN NoneVal
    ELSE IF Head(links).title = <<"pdf">> THEN Head(links).href
    ELSE pdf_url_of(Tail(links))

\* the statements of the try block that raise (AttributeError on None, ValueError
\* from fromisoformat)
parse_raises(entry) ==
    \/ entry.id.st = "absent"
    \/ entry.title.st # "text"
    \/ entry.summary.st # "text"
    \/ entry.published.st # "text"
    \/ entry.updated.st # "text"
    \/ ~iso_ok(replace_Z(entry.published.text))
    \/ ~iso_ok(replace_Z(entry.updated.text))
    \/ \E i \in 1..Len(entry.authors) : entry.authors[i].st = "absent"
    \/ entry.id.st = "empty"

\* the dict the try block returns when nothing raises
parsed_paper(entry) ==
    [id |-> split_last(entry.id.text, "/abs/"),
     title |-> strip(entry.title.text),
     authors |-> [i \in 1..Len(entry.authors) |->
                      IF entry.authors[i].st = "text"
                      THEN entry.authors[i].text ELSE NoneVal],
     abstract |-> strip(entry.summary.text),
     published |-> fromisoformat(replace_Z(entry.published.text)),
     updated |-> fromisoformat(replace_Z(entry.updated.text)),
     pdf_url |-> pdf_url_of(entry.links),
     arxiv_url |-> entry.id.text]

\* _parse_entry: [ok |-> TRUE, paper |-> dict], or [ok |-> FALSE] for None
parse_entry(entry) ==
    IF parse_raises(entry) THEN [ok |-> FALSE]
    ELSE [ok |-> TRUE, paper |-> parsed_paper(entry)]

-----------------------------------------------------------------------------
(* PaperSummarizer *)

SummaryUnavailable == <<"Summary", WS, "unavailable">>
NoKeySummary ==
    <<"AI", WS, "summary", WS, "unavailable", WS, "(no", WS, "API", WS, "key)">>

\* What the try block of summarize_paper meets: something in it raises (a network
\* or API error, a response with no choices, a content that is None), or
\* message.content is a str.
Raised == [raised |-> TRUE]
Content(s) == [raised |-> FALSE, content |-> s]
ServiceResults ==
    {Raised, Content(<<>>), Content(<<WS>>), Content(<<WS, "Generated", WS, "text", WS>>)}

\* _build_prompt: ", ".join(paper['authors'][:3]) raises TypeError on a None name
build_prompt_raises(paper) ==
    \E i \in 1..Len(paper.authors) : i <= 3 /\ paper.authors[i] = NoneVal

\* mutant: the content is returned as received
summarize_paper_unstripped(result) ==
    IF result.raised
    THEN NoneVal
    ELSE result.content

\* summarize_paper, once the prompt is built: the stripped content, or None when
\* anything in the try block raises
summarize_paper(result) ==
    IF result.raised
    THEN NoneVal
    ELSE strip(result.content)

\* Python truthiness of an Optional[str]
truthy(s) == s # NoneVal /\ s # <<>>

\* d with d[key] = value (a new value of the dict; the caller decides where it lives)
with_field(d, key, value) ==
    [k \in DOMAIN d \cup {key} |-> IF k = key THEN value ELSE d[k]]

\* mutant: the summary replaces the abstract instead of being added
paper_with_summary_over_abstract(paper, summary) ==
    with_field(paper, "abstract", IF truthy(summary) THEN summary ELSE SummaryUnavailable)

\* paper_with_summary of summarize_papers: paper.copy() with the summary set
paper_with_summary(paper, summary) ==
    with_field(paper, "summary", IF truthy(summary) THEN summary ELSE SummaryUnavailable)

-----------------------------------------------------------------------------
(* The run: main, run_digest and the loops of fetch_papers and summarize_papers *)

NoConfig == [loaded |-> FALSE]
NoFetcher == [constructed |-> FALSE]
NoSink == [kind |-> "none"]
Running == [code |-> -1, outcome |-> "running", cause |-> "none"]

Cats == {"cs.AI", "physics.comp-ph"}
Terms == {"simulation", "molecular dynamics"}

Config(categories, keywords) ==
    [loaded |-> TRUE, categories |-> categories, keywords |-> keywords,
     time_window_hours |-> WindowHours]

\* the configurations of a run
Configs ==
    {Config(<<"cond-mat.mtrl-sci">>,
            <<<<"dislocation", "molecular dynamics">>, <<"atomistic simulation">>>>)}

\* the configurations build_query is exercised on
QueryConfigs ==
    {Config(c, g) : c \in SeqsUpTo(Cats, MaxCats),
                    g \in SeqsUpTo(SeqsUpTo(Terms, MaxTerms), MaxGroups)}

\* ArxivFetcher.__init__
new_fetcher(categories, time_window_hours, clock) ==
    [constructed |-> TRUE, categories |-> categories,
     time_window_hours |-> time_window_hours,
     cutoff_date |-> [wall |-> clock - time_window_hours, aware |-> TRUE, off |-> 0]]

\* the values of the dicts of a list object
Values(ref) == [i \in 1..Len(lists[ref]) |-> heap[lists[ref][i]]]

\* mutant: the handler of main exits with 0 whatever happened
Exit_always_zero(code, outcome, cause) ==
    /\ exit' = [code |-> 0, outcome |-> outcome, cause |-> cause]
    /\ pc' = "exited"

\* the process ends: run_digest returns or raises, or sys.exit is called, and
\* main gives the exit code
Exit(code, outcome, cause) ==
    /\ exit' = [code |-> code, outcome |-> outcome, cause |-> cause]
    /\ pc' = "exited"

Init ==
    /\ pc = "main"
    /\ now = 0
    /\ dry_run \in BOOLEAN
    /\ api_key \in BOOLEAN
    /\ config = NoConfig
    /\ fetcher = NoFetcher
    /\ query = <<>>
    /\ requests = <<>>
    /\ feed = <<>>
    /\ idx = 0
    /\ heap = <<>>
    /\ lists = <<>>
    /\ papers = NoRef
    /\ summarized_papers = NoRef
    /\ fetched = <<>>
    /\ calls = <<>>
    /\ sink = NoSink
    /\ exit = Running

\* load_config returns the document
LoadConfig ==
    /\ pc = "main"
    /\ \E c \in Configs : config' = c
    /\ pc' = "new_fetcher"
    /\ UNCHANGED <<now, dry_run, api_key, fetcher, query, requests, feed, idx, heap, lists,
                   papers, summarized_papers, fetched, calls, sink, exit>>

\* load_config: FileNotFoundError or yaml.YAMLError, answered with sys.exit(1)
LoadConfigFails ==
    /\ pc = "main"
    /\ \E cause \in {"config_not_found", "config_unparseable"} :
           Exit(1, "config_error", cause)
    /\ UNCHANGED <<now, dry_run, api_key, config, fetcher, query, requests, feed, idx, heap,
                   lists, papers, summarized_papers, fetched, calls, sink>>

\* run_digest constructs the fetcher; the cutoff is taken from the clock here
NewFetcher ==
    /\ pc = "new_fetcher"
    /\ fetcher' = new_fetcher(config.categories, config.time_window_hours, now)
    /\ pc' = "fetch"
    /\ UNCHANGED <<now, dry_run, api_key, config, query, requests, feed, idx, heap, lists,
                   papers, summarized_papers, fetched, calls, sink, exit>>

\* time passes between the construction of the fetcher and the request
Tick ==
    /\ pc = "fetch"
    /\ now < MaxClock
    /\ now' = now + 1
    /\ UNCHANGED <<pc, dry_run, api_key, config, fetcher, query, requests, feed, idx, heap,
                   lists, papers, summarized_papers, fetched, calls, sink, exit>>

\* the query of this call, logged with the groups it was built from and the
\* clock at the call
QueryBuilt(groups) ==
    query' = Append(query, [groups |-> groups, result |-> build_query(fetcher, groups),
                            at |-> now])

\* mutant: the request is made again after a failure
FetchTransportError_retries ==
    /\ pc = "fetch"
    /\ query' = Append(query, [groups |-> config.keywords,
                               result |-> build_query(fetcher, config.keywords),
                               at |-> now])
    /\ requests' = requests \o <<"failed", "failed">>
    /\ lists' = Append(lists, <<>>)
    /\ papers' = Len(lists) + 1
    /\ fetched' = <<>>
    /\ pc' = "fetched"
    /\ UNCHANGED <<now, dry_run, api_key, config, fetcher, feed, idx, heap,
                   summarized_papers, calls, sink, exit>>

\* fetch_papers: urlopen raises; the except clause returns []
FetchTransportError ==
    /\ pc = "fetch"
    /\ QueryBuilt(config.keywords)
    /\ requests' = Append(requests, "failed")
    /\ lists' = Append(lists, <<>>)
    /\ papers' = Len(lists) + 1
    /\ fetched' = <<>>
    /\ pc' = "fetched"
    /\ UNCHANGED <<now, dry_run, api_key, config, fetcher, feed, idx, heap,
                   summarized_papers, calls, sink, exit>>

\* fetch_papers: the body is read, and ET.fromstring raises on it
FetchMalformedXml ==
    /\ pc = "fetch"
    /\ QueryBuilt(config.keywords)
    /\ requests' = Append(requests, "malformed")
    /\ Exit(1, "error", "xml")
    /\ UNCHANGED <<now, dry_run, api_key, config, fetcher, feed, idx, heap, lists, papers,
                   summarized_papers, fetched, calls, sink>>

\* fetch_papers: the body is read and parsed; papers = [] and the loop starts
FetchResponse ==
    /\ pc = "fetch"
    /\ QueryBuilt(config.keywords)
    /\ requests' = Append(requests, "ok")
    /\ \E f \in Feeds : feed' = f
    /\ lists' = Append(lists, <<>>)
    /\ papers' = Len(lists) + 1
    /\ idx' = 1
    /\ pc' = "parse_loop"
    /\ UNCHANGED <<now, dry_run, api_key, config, fetcher, heap, summarized_papers, fetched,
                   calls, sink, exit>>

\* mutant: the comparison is strict
keeps_strict(paper, cutoff_date) == Instant(paper.published) > Instant(cutoff_date)

\* the date filter of fetch_papers
keeps(paper, cutoff_date) == ge(paper.published, cutoff_date)

\* one iteration of the loop of fetch_papers: parse the entry, keep it if it is
\* recent enough
ParseEntry ==
    /\ pc = "parse_loop"
    /\ idx <= Len(feed)
    /\ LET r == parse_entry(feed[idx]) IN
         /\ r.ok => ~ge_raises(r.paper.published, fetcher.cutoff_date)
         /\ IF r.ok /\ keeps(r.paper, fetcher.cutoff_date)
            THEN /\ heap' = Append(heap, r.paper)
                 /\ lists' = [lists EXCEPT ![papers] = Append(@, Len(heap) + 1)]
            ELSE UNCHANGED <<heap, lists>>
    /\ idx' = idx + 1
    /\ UNCHANGED <<pc, now, dry_run, api_key, config, fetcher, query, requests, feed, papers,
                   summarized_papers, fetched, calls, sink, exit>>

\* the same iteration when the parsed timestamp has no offset: the comparison
\* with the aware cutoff raises TypeError, outside any try block
ParseEntryCompareRaises ==
    /\ pc = "parse_loop"
    /\ idx <= Len(feed)
    /\ LET r == parse_entry(feed[idx]) IN
         r.ok /\ ge_raises(r.paper.published, fetcher.cutoff_date)
    /\ Exit(1, "error", "naive_timestamp")
    /\ UNCHANGED <<now, dry_run, api_key, config, fetcher, query, requests, feed, idx, heap,
                   lists, papers, summarized_papers, fetched, calls, sink>>

\* fetch_papers returns papers
FetchReturn ==
    /\ pc = "parse_loop"
    /\ idx > Len(feed)
    /\ fetched' = Values(papers)
    /\ pc' = "fetched"
    /\ UNCHANGED <<now, dry_run, api_key, config, fetcher, query, requests, feed, idx, heap,
                   lists, papers, summarized_papers, calls, sink, exit>>

\* mutant: the empty list is not tested and goes on to the notifier
NoPapersFound_sends_empty ==
    /\ pc = "fetched"
    /\ lists[papers] = <<>>
    /\ sink' = [kind |-> "digest", format |-> "file", email |-> FALSE, records |-> <<>>]
    /\ exit' = [code |-> 0, outcome |-> "digest", cause |-> "none"]
    /\ pc' = "exited"
    /\ UNCHANGED <<now, dry_run, api_key, config, fetcher, query, requests, feed, idx,
                   heap, lists, papers, summarized_papers, fetched, calls>>

\* run_digest: `if not papers`, the message and the return
NoPapersFound ==
    /\ pc = "fetched"
    /\ lists[papers] = <<>>
    /\ Exit(0, "no_papers", "none")
    /\ UNCHANGED <<now, dry_run, api_key, config, fetcher, query, requests, feed, idx,
                   heap, lists, papers, summarized_papers, fetched, calls, sink>>

\* mutant: the loop of summarize_papers starts at the second paper
NewSummarizer_skips_first ==
    /\ pc = "fetched"
    /\ lists[papers] # <<>>
    /\ api_key
    /\ lists' = Append(lists, <<>>)
    /\ summarized_papers' = Len(lists) + 1
    /\ idx' = 2
    /\ feed' = <<>>
    /\ pc' = "summarize_loop"
    /\ UNCHANGED <<now, dry_run, api_key, config, fetcher, query, requests, heap,
                   papers, fetched, calls, sink, exit>>

\* run_digest: PaperSummarizer(...) is constructed; summarize_papers starts with
\* summarized = []
NewSummarizer ==
    /\ pc = "fetched"
    /\ lists[papers] # <<>>
    /\ api_key
    /\ lists' = Append(lists, <<>>)
    /\ summarized_papers' = Len(lists) + 1
    /\ idx' = 1
    /\ feed' = <<>>
    /\ pc' = "summarize_loop"
    /\ UNCHANGED <<now, dry_run, api_key, config, fetcher, query, requests, heap,
                   papers, fetched, calls, sink, exit>>

\* mutant: the ValueError of the constructor is not caught
NewSummarizerNoKey_aborts ==
    /\ pc = "fetched"
    /\ lists[papers] # <<>>
    /\ ~api_key
    /\ exit' = [code |-> 1, outcome |-> "error", cause |-> "no_api_key"]
    /\ pc' = "exited"
    /\ UNCHANGED <<now, dry_run, api_key, config, fetcher, query, requests, feed, idx,
                   heap, lists, papers, summarized_papers, fetched, calls, sink>>

\* run_digest: PaperSummarizer(...) raises ValueError, the except clause starts
\* the placeholder loop
NewSummarizerNoKey ==
    /\ pc = "fetched"
    /\ lists[papers] # <<>>
    /\ ~api_key
    /\ idx' = 1
    /\ feed' = <<>>
    /\ pc' = "placeholder_loop"
    /\ UNCHANGED <<now, dry_run, api_key, config, fetcher, query, requests, heap,
                   lists, papers, summarized_papers, fetched, calls, sink, exit>>

\* one iteration of `for paper in papers: paper['summary'] = ...`: the dict of
\* the list is written in place
PlaceholderSummary ==
    /\ pc = "placeholder_loop"
    /\ idx <= Len(lists[papers])
    /\ heap' = [heap EXCEPT ![lists[papers][idx]] = with_field(@, "summary", NoKeySummary)]
    /\ idx' = idx + 1
    /\ UNCHANGED <<pc, now, dry_run, api_key, config, fetcher, query, requests, feed,
                   lists, papers, summarized_papers, fetched, calls, sink, exit>>

\* summarized_papers = papers: the same list object
PlaceholderDone ==
    /\ pc = "placeholder_loop"
    /\ idx > Len(lists[papers])
    /\ summarized_papers' = papers
    /\ pc' = "output"
    /\ UNCHANGED <<now, dry_run, api_key, config, fetcher, query, requests, feed, idx,
                   heap, lists, papers, fetched, calls, sink, exit>>

\* one iteration of the loop of summarize_papers: the service is called for the
\* paper, and a copy of its dict with the summary is appended to summarized
SummarizePaper ==
    /\ pc = "summarize_loop"
    /\ idx <= Len(lists[papers])
    /\ LET paper == heap[lists[papers][idx]] IN
         /\ ~build_prompt_raises(paper)
         /\ \E result \in ServiceResults :
              /\ calls' = Append(calls, [paper |-> idx, result |-> result])
              /\ heap' = Append(heap, paper_with_summary(paper, summarize_paper(result)))
              /\ lists' = [lists EXCEPT ![summarized_papers] = Append(@, Len(heap) + 1)]
    /\ idx' = idx + 1
    /\ UNCHANGED <<pc, now, dry_run, api_key, config, fetcher, query, requests, feed,
                   papers, summarized_papers, fetched, sink, exit>>

\* the same iteration when _build_prompt raises: it is called before the try
\* block of summarize_paper, so the error leaves summarize_papers and run_digest
SummarizePromptRaises ==
    /\ pc = "summarize_loop"
    /\ idx <= Len(lists[papers])
    /\ build_prompt_raises(heap[lists[papers][idx]])
    /\ Exit(1, "error", "prompt")
    /\ UNCHANGED <<now, dry_run, api_key, config, fetcher, query, requests, feed, idx,
                   heap, lists, papers, summarized_papers, fetched, calls, sink>>

\* summarize_papers returns summarized
SummarizeReturn ==
    /\ pc = "summarize_loop"
    /\ idx > Len(lists[papers])
    /\ pc' = "output"
    /\ UNCHANGED <<now, dry_run, api_key, config, fetcher, query, requests, feed, idx,
                   heap, lists, papers, summarized_papers, fetched, calls, sink, exit>>

\* mutant: the dry-run test is lost and the digest is handed to the notifier
DryRunPreview_writes ==
    /\ pc = "output"
    /\ dry_run
    /\ sink' = [kind |-> "digest", format |-> "file", email |-> FALSE,
                records |-> Values(summarized_papers)]
    /\ exit' = [code |-> 0, outcome |-> "digest", cause |-> "none"]
    /\ pc' = "exited"
    /\ UNCHANGED <<now, dry_run, api_key, config, fetcher, query, requests, feed, idx,
                   heap, lists, papers, summarized_papers, fetched, calls>>

\* run_digest with dry_run: the preview of the first record, and the return
DryRunPreview ==
    /\ pc = "output"
    /\ dry_run
    /\ sink' = [kind |-> "preview", records |-> SubSeq(Values(summarized_papers), 1, 1)]
    /\ Exit(0, "preview", "none")
    /\ UNCHANGED <<now, dry_run, api_key, config, fetcher, query, requests, feed, idx,
                   heap, lists, papers, summarized_papers, fetched, calls>>

\* what run_digest hands to DigestNotifier: the configured format, and the
\* recipient when the format asks for email and email is enabled
OutputFormats == {"file", "email", "both"}
Handed(format, enabled) ==
    [kind |-> "digest", format |-> format,
     email |-> format \in {"email", "both"} /\ enabled,
     records |-> Values(summarized_papers)]

\* notifier.output_digest returns, and run_digest with it
OutputDigest ==
    /\ pc = "output"
    /\ ~dry_run
    /\ \E format \in OutputFormats, enabled \in BOOLEAN : sink' = Handed(format, enabled)
    /\ Exit(0, "digest", "none")
    /\ UNCHANGED <<now, dry_run, api_key, config, fetcher, query, requests, feed, idx,
                   heap, lists, papers, summarized_papers, fetched, calls>>

\* notifier.output_digest raises (the file cannot be written, the transport
\* fails): the error leaves run_digest
OutputDigestRaises ==
    /\ pc = "output"
    /\ ~dry_run
    /\ \E format \in OutputFormats, enabled \in BOOLEAN : sink' = Handed(format, enabled)
    /\ Exit(1, "error", "sink")
    /\ UNCHANGED <<now, dry_run, api_key, config, fetcher, query, requests, feed, idx,
                   heap, lists, papers, summarized_papers, fetched, calls>>

\* KeyboardInterrupt while run_digest waits for the feed, for the service or for
\* the sink: main answers with sys.exit(0)
Interrupt ==
    /\ pc \in {"fetch", "summarize_loop", "output"}
    /\ Exit(0, "interrupted", "none")
    /\ UNCHANGED <<now, dry_run, api_key, config, fetcher, query, requests, feed, idx,
                   heap, lists, papers, summarized_papers, fetched, calls, sink>>

Next ==
    \/ LoadConfig
    \/ LoadConfigFails
    \/ NewFetcher
    \/ Tick
    \/ FetchTransportError
    \/ FetchMalformedXml
    \/ FetchResponse
    \/ ParseEntry
    \/ ParseEntryCompareRaises
    \/ FetchReturn
    \/ NoPapersFound
    \/ NewSummarizer
    \/ NewSummarizerNoKey
    \/ PlaceholderSummary
    \/ PlaceholderDone
    \/ SummarizePaper
    \/ SummarizePromptRaises
    \/ SummarizeReturn
    \/ DryRunPreview
    \/ OutputDigest
    \/ OutputDigestRaises
    \/ Interrupt

Spec == Init /\ [][Next]_vars

-----------------------------------------------------------------------------
(* build_query on its own: a fetcher is constructed and build_query is called
   on it, as the unit tests do *)

InitQuery ==
    /\ pc = "build_query"
    /\ now = 0
    /\ dry_run = FALSE
    /\ api_key = FALSE
    /\ config \in QueryConfigs
    /\ fetcher = new_fetcher(config.categories, config.time_window_hours, now)
    /\ query = <<>>
    /\ requests = <<>>
    /\ feed = <<>>
    /\ idx = 0
    /\ heap = <<>>
    /\ lists = <<>>
    /\ papers = NoRef
    /\ summarized_papers = NoRef
    /\ fetched = <<>>
    /\ calls = <<>>
    /\ sink = NoSink
    /\ exit = Running

\* query = fetcher.build_query(keyword_groups)
BuildQueryCall ==
    /\ pc = "build_query"
    /\ Len(query) < MaxQueryCalls
    /\ QueryBuilt(config.keywords)
    /\ UNCHANGED <<pc, now, dry_run, api_key, config, fetcher, requests, feed, idx,
                   heap, lists, papers, summarized_papers, fetched, calls, sink, exit>>

NextQuery == BuildQueryCall

SpecQuery == InitQuery /\ [][NextQuery]_vars

-----------------------------------------------------------------------------
(* fetch_papers on its own: a fetcher is constructed and fetch_papers is called
   on it more than once, the clock advancing before each call *)

InitFetch ==
    /\ pc = "new_fetcher"
    /\ now = 0
    /\ dry_run = FALSE
    /\ api_key = FALSE
    /\ config \in Configs
    /\ fetcher = NoFetcher
    /\ query = <<>>
    /\ requests = <<>>
    /\ feed = <<>>
    /\ idx = 0
    /\ heap = <<>>
    /\ lists = <<>>
    /\ papers = NoRef
    /\ summarized_papers = NoRef
    /\ fetched = <<>>
    /\ calls = <<>>
    /\ sink = NoSink
    /\ exit = Running

\* papers = fetcher.fetch_papers(keyword_groups) once more on the same fetcher;
\* the list of the call before is dropped
FetchAgain ==
    /\ pc = "fetched"
    /\ Len(requests) < MaxFetchCalls
    /\ pc' = "fetch"
    /\ feed' = <<>>
    /\ idx' = 0
    /\ heap' = <<>>
    /\ lists' = <<>>
    /\ papers' = NoRef
    /\ fetched' = <<>>
    /\ UNCHANGED <<now, dry_run, api_key, config, fetcher, query, requests,
                   summarized_papers, calls, sink, exit>>

NextFetch ==
    \/ NewFetcher
    \/ Tick
    \/ FetchTransportError
    \/ FetchMalformedXml
    \/ FetchResponse
    \/ ParseEntry
    \/ ParseEntryCompareRaises
    \/ FetchReturn
    \/ FetchAgain

SpecFetch == InitFetch /\ [][NextFetch]_vars

-----------------------------------------------------------------------------
(* Properties *)

RECURSIVE OrJoined(_, _)
OrJoined(clauses, n) ==
    IF n = 0 THEN ""
    ELSE IF n = 1 THEN clauses[1]
    ELSE OrJoined(clauses, n - 1) \o " OR " \o clauses[n]

RECURSIVE AndJoined(_, _)
AndJoined(group, n) ==
    IF n = 0 THEN ""
    ELSE IF n = 1 THEN "all:" \o group[1]
    ELSE AndJoined(group, n - 1) \o " AND all:" \o group[n]

\* the clause of one keyword group; an empty group, for which the text names no
\* form, gives the parentheses with nothing between them
GroupClause(group) ==
    IF Len(group) = 1 THEN "all:" \o group[1]
    ELSE "(" \o AndJoined(group, Len(group)) \o ")"

StatedQuery(categories, groups) ==
    "(" \o OrJoined([i \in 1..Len(categories) |-> "cat:" \o categories[i]], Len(categories))
        \o ") AND ("
        \o OrJoined([i \in 1..Len(groups) |-> GroupClause(groups[i])], Len(groups))
        \o ")"

Recent(entry) ==
    /\ parse_entry(entry).ok
    /\ Instant(parse_entry(entry).paper.published) >= Instant(fetcher.cutoff_date)

\* C2: when fetch_papers returns, the list holds exactly the parsed entries of
\* the feed whose published instant is at or after the cutoff, in feed order:
\* an entry strictly before the cutoff is left out, one at the cutoff is in.
C2_DateFilter ==
    (pc = "fetched" /\ requests = <<"ok">>) =>
        LET recent == SelectSeq(feed, Recent) IN
            fetched = [i \in 1..Len(recent) |-> parse_entry(recent[i]).paper]

C2_Witness ==
    /\ pc = "fetched"
    /\ feed = <<BaseEntry(Cutoff0 - 1), BaseEntry(Cutoff0)>>
    /\ Len(fetched) = 1
    /\ Instant(fetched[1].published) = Instant(fetcher.cutoff_date)

\* an entry is malformed when a required field or an author name is missing,
\* or a timestamp cannot be parsed
Missing(field) == field.st # "text"
Malformed(entry) ==
    \/ \E f \in {"id", "title", "summary", "published", "updated"} : Missing(entry[f])
    \/ \E i \in 1..Len(entry.authors) : Missing(entry.authors[i])
    \/ ~iso_ok(replace_Z(entry.published.text))
    \/ ~iso_ok(replace_Z(entry.updated.text))
WellFormed(entry) == ~Malformed(entry)
InsideWindow(entry) ==
    Instant(fromisoformat(replace_Z(entry.published.text))) >= Instant(fetcher.cutoff_date)

\* C3: for a feed whose well-formed entries are all inside the time window,
\* fetch_papers does not raise and returns exactly the well-formed entries, in
\* feed order; a malformed entry is dropped and the others are kept.
C3_BadEntriesDropped ==
    (\A i \in 1..Len(feed) : WellFormed(feed[i]) => InsideWindow(feed[i])) =>
        /\ exit.cause # "naive_timestamp"
        /\ (pc = "fetched" /\ requests = <<"ok">>) =>
               LET good == SelectSeq(feed, WellFormed) IN
                   fetched = [i \in 1..Len(good) |-> parsed_paper(good[i])]

\* C4: a call of fetch_papers makes exactly one request; after a request that
\* failed there is no second request, no error leaves fetch_papers, and the
\* list it returns is empty.
C4_OneRequestNoRetry ==
    /\ Len(requests) = Len(query)
    /\ "failed" \in {requests[i] : i \in 1..Len(requests)} =>
           /\ requests = <<"failed">>
           /\ papers # NoRef
           /\ lists[papers] = <<>>
           /\ fetched = <<>>
           /\ exit.outcome \in {"running", "no_papers", "interrupted"}

C4_Witness ==
    /\ pc = "fetched"
    /\ requests = <<"failed">>

\* C5: with no credential, no call to the text-generation service is made, the
\* records at the output stage are the fetched papers, each with the summary
\* "AI summary unavailable (no API key)", and a run that fetched at least one
\* paper ends only after the output stage was reached (or on the user's
\* interrupt).
C5_NoKeyPlaceholders ==
    ~api_key =>
        /\ calls = <<>>
        /\ pc = "output" =>
               /\ Len(Values(summarized_papers)) = Len(fetched)
               /\ \A i \in 1..Len(fetched) :
                      /\ "summary" \in DOMAIN Values(summarized_papers)[i]
                      /\ Values(summarized_papers)[i].summary = NoKeySummary
        /\ (pc = "exited" /\ fetched # <<>> /\ exit.outcome # "interrupted") =>
               /\ sink.kind \in {"preview", "digest"}
               /\ sink.kind = "digest" => Len(sink.records) = Len(fetched)
               /\ \A i \in 1..Len(sink.records) : sink.records[i].summary = NoKeySummary

C5_Witness ==
    /\ ~api_key
    /\ pc = "exited"
    /\ sink.kind = "digest"
    /\ Len(sink.records) = 2

\* the service call for a paper fails: it raises, or the response is empty
ServiceFailed(result) == result.raised \/ result.content = <<>>

\* C6: summarize_papers does not raise, and the list it returns has one record
\* per input paper, with "Summary unavailable" for the papers whose service
\* call failed and the text the service returned for every other paper.
C6_PerPaperFallback ==
    api_key =>
        /\ exit.cause # "prompt"
        /\ pc = "output" =>
               /\ Len(Values(summarized_papers)) = Len(Values(papers))
               /\ \A i \in 1..Len(Values(summarized_papers)) :
                      Values(summarized_papers)[i].summary =
                          IF ServiceFailed(calls[i].result)
                          THEN SummaryUnavailable
                          ELSE calls[i].result.content

\* C7: the records summarize_papers builds are, in order, the input records
\* with exactly the field summary added: same length once it returns, and every
\* field of the input with the value it had.
C7_OneFieldAdded ==
    (api_key /\ pc \in {"summarize_loop", "output"}) =>
        LET out == Values(summarized_papers)
            inp == Values(papers)
        IN /\ Len(out) = (IF pc = "output" THEN Len(inp) ELSE idx - 1)
           /\ \A i \in 1..Len(out) :
                  /\ "summary" \notin DOMAIN inp[i]
                  /\ DOMAIN out[i] = DOMAIN inp[i] \cup {"summary"}
                  /\ \A f \in DOMAIN inp[i] : out[i][f] = inp[i][f]

C7_Witness ==
    /\ api_key
    /\ pc = "output"
    /\ Len(Values(summarized_papers)) = 2
    /\ Values(papers)[1] # Values(papers)[2]

\* C8: once fetch_papers has returned, its list and the records in it stay as
\* returned, and the summarized list is another list object.
C8_FetchedNeverMutated ==
    pc \in {"fetched", "summarize_loop", "placeholder_loop", "output"} =>
        /\ Values(papers) = fetched
        /\ summarized_papers # NoRef => summarized_papers # papers

\* C9 as stated: every record at the output stage has a summary that is not
\* None and not empty, and that is the text the service returned for the paper
\* or one of the two placeholder sentences.
C9_SummaryIsReturnedText ==
    pc = "output" =>
        \A i \in 1..Len(Values(summarized_papers)) :
            LET r == Values(summarized_papers)[i] IN
                /\ "summary" \in DOMAIN r
                /\ r.summary \notin {NoneVal, <<>>}
                /\ \/ r.summary \in {SummaryUnavailable, NoKeySummary}
                   \/ /\ api_key
                      /\ ~calls[i].result.raised
                      /\ r.summary = calls[i].result.content

\* C9, amended: every record at the output stage has a summary that is not
\* None and not empty, and that is the text the service returned for the paper
\* with its leading and trailing whitespace removed, or one of the two
\* placeholder sentences.
C9_SummaryNeverAbsent ==
    pc = "output" =>
        \A i \in 1..Len(Values(summarized_papers)) :
            LET r == Values(summarized_papers)[i] IN
                /\ "summary" \in DOMAIN r
                /\ r.summary \notin {NoneVal, <<>>}
                /\ \/ r.summary \in {SummaryUnavailable, NoKeySummary}
                   \/ /\ api_key
                      /\ ~calls[i].result.raised
                      /\ r.summary = strip(calls[i].result.content)

C9_Witness ==
    /\ pc = "output"
    /\ api_key
    /\ Len(calls) = 2
    /\ calls[1].result = Content(<<WS, "Generated", WS, "text", WS>>)
    /\ Values(summarized_papers)[1].summary = <<"Generated", WS, "text">>
    /\ Values(summarized_papers)[2].summary = SummaryUnavailable

\* C10: a run that has ended has reached the digest, the preview or the "no
\* papers found" message, or was stopped by the user, by a configuration error
\* or by an unexpected top-level error (a feed that is not XML, a failing
\* sink); no entry of the feed stops it.
C10_EndsEarlyOnlyOnConfigOrTopLevel ==
    pc = "exited" =>
        \/ exit.outcome \in {"no_papers", "preview", "digest", "interrupted"}
        \/ exit.outcome = "config_error"
        \/ exit.outcome = "error" /\ exit.cause \in {"xml", "sink"}

\* C11: the exit code is 0 exactly when the run reached the digest, the preview
\* or the "no papers found" message, or was interrupted by the user, and 1
\* exactly when the configuration could not be loaded or an error left
\* run_digest (a feed that is not XML, a failing sink, an entry that makes the
\* fetch or the prompt raise).
C11_ExitCodes ==
    pc = "exited" =>
        /\ exit.code \in {0, 1}
        /\ exit.code = 0 <=>
               \/ sink.kind = "preview"
               \/ sink.kind = "digest" /\ exit.cause # "sink"
               \/ exit.outcome = "no_papers" /\ papers # NoRef /\ lists[papers] = <<>>
               \/ exit.outcome = "interrupted"
        /\ exit.code = 1 <=>
               \/ config = NoConfig
               \/ exit.outcome = "error"
        /\ exit.outcome = "error" =>
               \/ requests = <<"malformed">>
               \/ exit.cause = "sink" /\ sink.kind = "digest"
               \/ exit.cause \in {"naive_timestamp", "prompt"}

C11_Witness ==
    /\ pc = "exited"
    /\ exit.code = 1
    /\ exit.cause = "sink"
    /\ sink.kind = "digest"

\* C12: in a dry run the notifier is never handed anything; the feed request
\* and the summarization have run as in any run when the output step is
\* reached, and the run then ends with the preview of the first record.
C12_DryRunWritesNothing ==
    dry_run =>
        /\ sink.kind # "digest"
        /\ pc = "output" =>
               /\ requests = <<"ok">>
               /\ Len(Values(summarized_papers)) = Len(fetched)
               /\ api_key => Len(calls) = Len(fetched)
        /\ (pc = "exited" /\ summarized_papers # NoRef /\ exit.outcome # "interrupted"
              /\ exit.cause # "prompt") =>
               /\ exit = [code |-> 0, outcome |-> "preview", cause |-> "none"]
               /\ sink = [kind |-> "preview",
                          records |-> <<Values(summarized_papers)[1]>>]

C12_Witness ==
    /\ dry_run
    /\ api_key
    /\ exit.outcome = "preview"
    /\ Len(calls) = 2
    /\ Len(sink.records) = 1

\* C13: the events of a run come in one order: at most one feed request; a
\* text-generation call only after the fetch has returned, the i-th call for
\* the i-th fetched paper; the notifier only after the last of them.  A run
\* that reaches the output step has made exactly one feed request and, with the
\* credential, exactly one call per fetched paper; nothing happens after the
\* notifier was invoked.
C13_EventOrder ==
    /\ Len(requests) <= 1
    /\ pc \in {"fetched", "summarize_loop", "placeholder_loop", "output"} =>
           Len(requests) = 1
    /\ calls # <<>> =>
           /\ api_key
           /\ requests = <<"ok">>
           /\ pc \in {"summarize_loop", "output", "exited"}
    /\ Len(calls) <= Len(fetched)
    /\ \A i \in 1..Len(calls) : calls[i].paper = i
    /\ pc = "summarize_loop" => Len(calls) = idx - 1
    /\ pc = "output" =>
           /\ sink = NoSink
           /\ Len(calls) = (IF api_key THEN Len(fetched) ELSE 0)
    /\ sink # NoSink =>
           /\ pc = "exited"
           /\ requests = <<"ok">>
           /\ Len(calls) = (IF api_key THEN Len(fetched) ELSE 0)

C13_Witness ==
    /\ sink.kind = "digest"
    /\ api_key
    /\ Len(fetched) = 2
    /\ Len(calls) = 2

\* C14: when fetch_papers has returned the empty list, no text-generation call
\* was made and nothing was handed to the notifier, and the only step the run
\* takes is the "no papers found" return with exit code 0: no summarizer is
\* constructed, so the credential is not read.
C14_EmptyFetchEndsRun ==
    /\ []((pc = "fetched" /\ lists[papers] = <<>>) => (calls = <<>> /\ sink = NoSink))
    /\ []((pc = "exited" /\ exit.outcome = "no_papers") =>
              (calls = <<>> /\ sink = NoSink /\ summarized_papers = NoRef))
    /\ [][(pc = "fetched" /\ lists[papers] = <<>>) =>
              /\ pc' = "exited"
              /\ exit' = [code |-> 0, outcome |-> "no_papers", cause |-> "none"]
              /\ calls' = <<>>
              /\ sink' = NoSink
              /\ summarized_papers' = NoRef]_vars

C14_Witness ==
    /\ pc = "exited"
    /\ exit.outcome = "no_papers"
    /\ requests = <<"ok">>
    /\ Len(feed) = 2
    /\ fetched = <<>>

\* C15: while a fetch call filters the entries, the cutoff it compares against
\* is the clock at that call minus the window, also when the clock has advanced
\* since the fetcher was constructed and on a second call on the same fetcher.
C15_CutoffAtFetchCall ==
    pc = "parse_loop" =>
        Instant(fetcher.cutoff_date) = query[Len(query)].at - fetcher.time_window_hours

====
